---- MODULE Spec2Model ----
(***************************************************************************)
(* Model of create_squircle_path (scripts/generate_icon.py): the builder   *)
(* of the continuous-curvature rounded rectangle used as icon background.  *)
(*                                                                         *)
(* Numbers.  The Python floats are modelled as exact decimal fixed-point   *)
(* numbers.  A radius is an integer count of hundredths (1e-2).  A ratio   *)
(* constant is an integer count of 1e-8.  A coordinate is a pair           *)
(* <<hi, lo>> with 0 <= lo < Base that stands for (hi * Base + lo) * 1e-10 *)
(* (two limbs, because a product radius * ratio does not fit one machine   *)
(* integer of the model checker).  The pair is kept normalised, so two     *)
(* coordinates are equal exactly when their pairs are equal.               *)
(***************************************************************************)
EXTENDS Integers, Sequences, FiniteSets, TLC

(* ---------------------------- bounds ----------------------------------- *)

\* widths and heights -1 .. MaxDim are tried, besides the sizes of IconDims
MaxDim == 3

\* origins 0 .. MaxOrigin are tried, besides the margin of the 1024 canvas
MaxOrigin == 1

(* ------------------------- fixed-point numbers ------------------------- *)

Base == 10 ^ 4

Norm(h, l) == <<h + (l \div Base), l % Base>>

\* an integer as a coordinate
FromInt(n) == <<n * (10 ^ 6), 0>>

Add(a, b) == Norm(a[1] + b[1], a[2] + b[2])

Sub(a, b) == Norm(a[1] - b[1], a[2] - b[2])

\* radius (hundredths) times ratio (1e-8), exact, as a coordinate
Mul(rc, p) == Norm(rc * (p \div Base), rc * (p % Base))

Leq(a, b) == (a[1] < b[1]) \/ (a[1] = b[1] /\ a[2] <= b[2])

Min(a, b) == IF a <= b THEN a ELSE b

\* a / p for a in hundredths and p a ratio in 1e-8: the quotient in
\* hundredths, rounded to the nearest (long division, eight decimal digits)
RECURSIVE LongDiv(_, _, _, _)
LongDiv(q, rem, p, digits) ==
    IF digits = 0
    THEN IF 2 * rem >= p THEN q + 1 ELSE q
    ELSE LongDiv(q * 10 + ((rem * 10) \div p), (rem * 10) % p, p, digits - 1)

Div(a, p) == LongDiv(a \div p, a % p, p, 8)

(* ------------------------- constants of the code ----------------------- *)

LIMIT_FACTOR == 152866483

TOP_RIGHT_P1 == 152866483
TOP_RIGHT_P2 == 108849323
TOP_RIGHT_P3 == 86840689
TOP_RIGHT_P4 == 66993427
TOP_RIGHT_P5 == 63149399
TOP_RIGHT_P6 == 37282392
TOP_RIGHT_P7 == 16906013
TOP_RIGHT_P8 == 7491176

TOP_RIGHT_CP1 == 6549600
TOP_RIGHT_CP2 == 7491100
TOP_RIGHT_CP3 == 16905899
TOP_RIGHT_CP4 == 37282401
TOP_RIGHT_CP5 == 63149399

(* ------------------------------- state --------------------------------- *)

VARIABLES
    x, y, width, height,        \* the arguments of the call
    r,                          \* limited radius, in hundredths
    left, right, top, bottom,   \* the edges of the rectangle, coordinates
    path,                       \* the NSBezierPath: the segments appended so far
    pc,                         \* position in the function body
    result                      \* the returned path

vars == <<x, y, width, height, r, left, right, top, bottom, path, pc, result>>

\* sizes of the icon generator: 832 in a 1024 canvas, and a 100 x 100 square
IconDims == {100, 832}

Dims == (-1 .. MaxDim) \cup IconDims

Origins == (0 .. MaxOrigin) \cup {96}

(* ------------------------------ segments ------------------------------- *)

NSPoint(px, py) == <<px, py>>

MoveTo(p) == [op |-> "MoveTo", pts |-> <<p>>]

LineTo(p) == [op |-> "LineTo", pts |-> <<p>>]

\* curveToPoint_controlPoint1_controlPoint2_(end, control1, control2)
CubicCurveTo(e, c1, c2) == [op |-> "CubicCurveTo", pts |-> <<e, c1, c2>>]

Close == [op |-> "Close", pts |-> <<>>]

(* --------------------------- radius limiting --------------------------- *)

\* min(width, height) * 0.22, in hundredths
corner_radius(w, h) == Min(w, h) * 22

\* min(width, height) / 2, in hundredths
max_radius(w, h) == Min(w, h) * 50

\* the limit applied with max in place of min
limited_radius_max(w, h) ==
    LET a == corner_radius(w, h)
        b == Div(max_radius(w, h), LIMIT_FACTOR)
    IN  IF a >= b THEN a ELSE b

limited_radius(w, h) == Min(corner_radius(w, h), Div(max_radius(w, h), LIMIT_FACTOR))

(* ----------------------- the statements of the body -------------------- *)

Start == MoveTo(NSPoint(Add(left, Mul(r, TOP_RIGHT_P1)), top))

\* the top edge stopped at the P2 offset instead of P1
TopEdge_P2 == LineTo(NSPoint(Sub(right, Mul(r, TOP_RIGHT_P2)), top))

TopEdge == LineTo(NSPoint(Sub(right, Mul(r, TOP_RIGHT_P1)), top))

TopRight1 ==
    CubicCurveTo(NSPoint(Sub(right, Mul(r, TOP_RIGHT_P4)), Sub(top, Mul(r, TOP_RIGHT_CP1))),
                 NSPoint(Sub(right, Mul(r, TOP_RIGHT_P2)), top),
                 NSPoint(Sub(right, Mul(r, TOP_RIGHT_P3)), top))

TopRight2 ==
    CubicCurveTo(NSPoint(Sub(right, Mul(r, TOP_RIGHT_CP2)), Sub(top, Mul(r, TOP_RIGHT_P5))),
                 NSPoint(Sub(right, Mul(r, TOP_RIGHT_P6)), Sub(top, Mul(r, TOP_RIGHT_CP3))),
                 NSPoint(Sub(right, Mul(r, TOP_RIGHT_P7)), Sub(top, Mul(r, TOP_RIGHT_CP4))))

TopRight3 ==
    CubicCurveTo(NSPoint(right, Sub(top, Mul(r, TOP_RIGHT_P1))),
                 NSPoint(right, Sub(top, Mul(r, TOP_RIGHT_P3))),
                 NSPoint(right, Sub(top, Mul(r, TOP_RIGHT_P2))))

RightEdge == LineTo(NSPoint(right, Add(bottom, Mul(r, TOP_RIGHT_P1))))

\* the first bottom-right curve with the x offset of its end point added
\* instead of subtracted
BottomRight1_sign ==
    CubicCurveTo(NSPoint(Add(right, Mul(r, TOP_RIGHT_CP1)), Add(bottom, Mul(r, TOP_RIGHT_P4))),
                 NSPoint(right, Add(bottom, Mul(r, TOP_RIGHT_P2))),
                 NSPoint(right, Add(bottom, Mul(r, TOP_RIGHT_P3))))

BottomRight1 ==
    CubicCurveTo(NSPoint(Sub(right, Mul(r, TOP_RIGHT_CP1)), Add(bottom, Mul(r, TOP_RIGHT_P4))),
                 NSPoint(right, Add(bottom, Mul(r, TOP_RIGHT_P2))),
                 NSPoint(right, Add(bottom, Mul(r, TOP_RIGHT_P3))))

BottomRight2 ==
    CubicCurveTo(NSPoint(Sub(right, Mul(r, TOP_RIGHT_P5)), Add(bottom, Mul(r, TOP_RIGHT_CP2))),
                 NSPoint(Sub(right, Mul(r, TOP_RIGHT_CP3)), Add(bottom, Mul(r, TOP_RIGHT_P6))),
                 NSPoint(Sub(right, Mul(r, TOP_RIGHT_CP4)), Add(bottom, Mul(r, TOP_RIGHT_P7))))

BottomRight3 ==
    CubicCurveTo(NSPoint(Sub(right, Mul(r, TOP_RIGHT_P1)), bottom),
                 NSPoint(Sub(right, Mul(r, TOP_RIGHT_P3)), bottom),
                 NSPoint(Sub(right, Mul(r, TOP_RIGHT_P2)), bottom))

BottomEdge == LineTo(NSPoint(Add(left, Mul(r, TOP_RIGHT_P1)), bottom))

BottomLeft1 ==
    CubicCurveTo(NSPoint(Add(left, Mul(r, TOP_RIGHT_P4)), Add(bottom, Mul(r, TOP_RIGHT_CP1))),
                 NSPoint(Add(left, Mul(r, TOP_RIGHT_P2)), bottom),
                 NSPoint(Add(left, Mul(r, TOP_RIGHT_P3)), bottom))

\* the second bottom-left curve with P6 and P7 exchanged in its control points
BottomLeft2_swapped ==
    CubicCurveTo(NSPoint(Add(left, Mul(r, TOP_RIGHT_CP2)), Add(bottom, Mul(r, TOP_RIGHT_P5))),
                 NSPoint(Add(left, Mul(r, TOP_RIGHT_P7)), Add(bottom, Mul(r, TOP_RIGHT_CP3))),
                 NSPoint(Add(left, Mul(r, TOP_RIGHT_P6)), Add(bottom, Mul(r, TOP_RIGHT_CP4))))

BottomLeft2 ==
    CubicCurveTo(NSPoint(Add(left, Mul(r, TOP_RIGHT_CP2)), Add(bottom, Mul(r, TOP_RIGHT_P5))),
                 NSPoint(Add(left, Mul(r, TOP_RIGHT_P6)), Add(bottom, Mul(r, TOP_RIGHT_CP3))),
                 NSPoint(Add(left, Mul(r, TOP_RIGHT_P7)), Add(bottom, Mul(r, TOP_RIGHT_CP4))))

BottomLeft3 ==
    CubicCurveTo(NSPoint(left, Add(bottom, Mul(r, TOP_RIGHT_P1))),
                 NSPoint(left, Add(bottom, Mul(r, TOP_RIGHT_P3))),
                 NSPoint(left, Add(bottom, Mul(r, TOP_RIGHT_P2))))

LeftEdge == LineTo(NSPoint(left, Sub(top, Mul(r, TOP_RIGHT_P1))))

TopLeft1 ==
    CubicCurveTo(NSPoint(Add(left, Mul(r, TOP_RIGHT_CP1)), Sub(top, Mul(r, TOP_RIGHT_P4))),
                 NSPoint(left, Sub(top, Mul(r, TOP_RIGHT_P2))),
                 NSPoint(left, Sub(top, Mul(r, TOP_RIGHT_P3))))

TopLeft2 ==
    CubicCurveTo(NSPoint(Add(left, Mul(r, TOP_RIGHT_P5)), Sub(top, Mul(r, TOP_RIGHT_CP2))),
                 NSPoint(Add(left, Mul(r, TOP_RIGHT_CP3)), Sub(top, Mul(r, TOP_RIGHT_P6))),
                 NSPoint(Add(left, Mul(r, TOP_RIGHT_CP4)), Sub(top, Mul(r, TOP_RIGHT_P7))))

\* the last curve ended at the P2 offset instead of P1
TopLeft3_P2 ==
    CubicCurveTo(NSPoint(Add(left, Mul(r, TOP_RIGHT_P2)), top),
                 NSPoint(Add(left, Mul(r, TOP_RIGHT_P3)), top),
                 NSPoint(Add(left, Mul(r, TOP_RIGHT_P2)), top))

TopLeft3 ==
    CubicCurveTo(NSPoint(Add(left, Mul(r, TOP_RIGHT_P1)), top),
                 NSPoint(Add(left, Mul(r, TOP_RIGHT_P3)), top),
                 NSPoint(Add(left, Mul(r, TOP_RIGHT_P2)), top))

\* the body with the last curve of the top-left corner left out
Body_MissingCurve ==
    << Start,
       TopEdge, TopRight1, TopRight2, TopRight3,
       RightEdge, BottomRight1, BottomRight2, BottomRight3,
       BottomEdge, BottomLeft1, BottomLeft2, BottomLeft3,
       LeftEdge, TopLeft1, TopLeft2,
       Close >>

\* the body with a straight run in place of the second top-right curve
Body_LineForCurve ==
    << Start,
       TopEdge, TopRight1, RightEdge, TopRight3,
       RightEdge, BottomRight1, BottomRight2, BottomRight3,
       BottomEdge, BottomLeft1, BottomLeft2, BottomLeft3,
       LeftEdge, TopLeft1, TopLeft2, TopLeft3,
       Close >>

\* the body with the right edge drawn before the top-right corner is finished
Body_EdgeBeforeCorner ==
    << Start,
       TopEdge, TopRight1, TopRight2, RightEdge,
       TopRight3, BottomRight1, BottomRight2, BottomRight3,
       BottomEdge, BottomLeft1, BottomLeft2, BottomLeft3,
       LeftEdge, TopLeft1, TopLeft2, TopLeft3,
       Close >>

\* the path-building statements of the body, in program order
Body ==
    << Start,
       TopEdge, TopRight1, TopRight2, TopRight3,
       RightEdge, BottomRight1, BottomRight2, BottomRight3,
       BottomEdge, BottomLeft1, BottomLeft2, BottomLeft3,
       LeftEdge, TopLeft1, TopLeft2, TopLeft3,
       Close >>

\* the statement the body executes next: one per segment already appended
NextStmt == Body[Len(path) + 1]

(* ------------------------------- actions ------------------------------- *)

Init ==
    /\ x \in Origins
    /\ y \in Origins
    /\ width \in Dims
    /\ height \in Dims
    /\ r = 0
    /\ left = FromInt(0)
    /\ right = FromInt(0)
    /\ top = FromInt(0)
    /\ bottom = FromInt(0)
    /\ path = <<>>
    /\ pc = "entry"
    /\ result = <<>>

\* lines 28-62: the empty path, the limited radius, the four edges
Setup ==
    /\ pc = "entry"
    /\ path' = <<>>
    /\ r' = limited_radius(width, height)
    /\ left' = FromInt(x)
    /\ right' = FromInt(x + width)
    /\ top' = FromInt(y + height)
    /\ bottom' = FromInt(y)
    /\ pc' = "build"
    /\ UNCHANGED <<x, y, width, height, result>>

moveToPoint ==
    /\ pc = "build"
    /\ Len(path) < Len(Body)
    /\ NextStmt.op = "MoveTo"
    /\ path' = Append(path, NextStmt)
    /\ UNCHANGED <<x, y, width, height, r, left, right, top, bottom, pc, result>>

lineToPoint ==
    /\ pc = "build"
    /\ Len(path) < Len(Body)
    /\ NextStmt.op = "LineTo"
    /\ path' = Append(path, NextStmt)
    /\ UNCHANGED <<x, y, width, height, r, left, right, top, bottom, pc, result>>

curveToPoint ==
    /\ pc = "build"
    /\ Len(path) < Len(Body)
    /\ NextStmt.op = "CubicCurveTo"
    /\ path' = Append(path, NextStmt)
    /\ UNCHANGED <<x, y, width, height, r, left, right, top, bottom, pc, result>>

closePath ==
    /\ pc = "build"
    /\ Len(path) < Len(Body)
    /\ NextStmt.op = "Close"
    /\ path' = Append(path, NextStmt)
    /\ pc' = "return"
    /\ UNCHANGED <<x, y, width, height, r, left, right, top, bottom, result>>

Return ==
    /\ pc = "return"
    /\ result' = path
    /\ pc' = "done"
    /\ UNCHANGED <<x, y, width, height, r, left, right, top, bottom, path>>

Next ==
    \/ Setup
    \/ moveToPoint
    \/ lineToPoint
    \/ curveToPoint
    \/ closePath
    \/ Return

Spec == Init /\ [][Next]_vars

TypeOK ==
    /\ pc \in {"entry", "build", "return", "done"}
    /\ Len(path) <= Len(Body)

(* ------------------- vocabulary of the properties ---------------------- *)

Valid == width > 0 /\ height > 0

Square == width = height

Done == pc = "done"

OpsOf(p) == [i \in DOMAIN p |-> p[i].op]

CountOp(p, o) == Cardinality({i \in DOMAIN p : p[i].op = o})

EndOf(seg) == seg.pts[1]

Hundredths(h) == <<h * Base, 0>>

\* the op sequence the contour is specified to have
ExpectedOps ==
    << "MoveTo",
       "LineTo", "CubicCurveTo", "CubicCurveTo", "CubicCurveTo",
       "LineTo", "CubicCurveTo", "CubicCurveTo", "CubicCurveTo",
       "LineTo", "CubicCurveTo", "CubicCurveTo", "CubicCurveTo",
       "LineTo", "CubicCurveTo", "CubicCurveTo", "CubicCurveTo",
       "Close" >>

(* ------------------------------- C1 ------------------------------------ *)

\* C1 as stated: for every rectangle with width > 0 and height > 0 the
\* returned path starts with MoveTo, ends with Close and has exactly 17
\* segments.
C1_Original ==
    (Done /\ Valid) =>
        /\ Len(result) = 17
        /\ result[1].op = "MoveTo"
        /\ result[Len(result)].op = "Close"

\* C1 amended: for every rectangle with width > 0 and height > 0 the
\* returned path starts with MoveTo, ends with Close and has exactly 18
\* segments.
C1_Amended ==
    (Done /\ Valid) =>
        /\ Len(result) = 18
        /\ result[1].op = "MoveTo"
        /\ result[Len(result)].op = "Close"

C1_Witness == Done /\ Valid /\ width = 832 /\ height = 3 /\ Len(result) = 18

(* ------------------------------- C2 ------------------------------------ *)

\* C2 as stated: for every valid rectangle the returned path has exactly 13
\* segments after the initial MoveTo: 4 LineTo, 12 CubicCurveTo and 1 Close.
C2_Original ==
    (Done /\ Valid) =>
        /\ Len(Tail(result)) = 13
        /\ CountOp(Tail(result), "LineTo") = 4
        /\ CountOp(Tail(result), "CubicCurveTo") = 12
        /\ CountOp(Tail(result), "Close") = 1

\* C2 amended: for every valid rectangle the returned path has exactly 17
\* segments after the initial MoveTo: 4 LineTo, 12 CubicCurveTo and 1 Close.
C2_Amended ==
    (Done /\ Valid) =>
        /\ Len(Tail(result)) = 17
        /\ CountOp(Tail(result), "LineTo") = 4
        /\ CountOp(Tail(result), "CubicCurveTo") = 12
        /\ CountOp(Tail(result), "Close") = 1
        /\ CountOp(Tail(result), "MoveTo") = 0

C2_Witness ==
    Done /\ Valid /\ width = 100 /\ height = 100 /\ CountOp(result, "CubicCurveTo") = 12

(* ------------------------------- C3 ------------------------------------ *)

\* C3: at every moment the segments appended so far are a prefix of
\* MoveTo, (LineTo, CubicCurveTo x 3) x 4, Close, so each LineTo is followed
\* by exactly three curves and nothing follows Close; the returned path is
\* that whole sequence; and the corners come in the order top-right,
\* bottom-right, bottom-left, top-left: the three curves after the k-th
\* LineTo lead from the side of that LineTo to the next side clockwise.
C3_EmissionOrder ==
    /\ Len(path) <= Len(ExpectedOps)
    /\ \A i \in DOMAIN path : path[i].op = ExpectedOps[i]
    /\ pc \in {"return", "done"} <=> (Len(path) > 0 /\ path[Len(path)].op = "Close")
    /\ Done =>
        /\ OpsOf(result) = ExpectedOps
        \* top edge, then the corner reaching the right side
        /\ EndOf(result[2])[2] = FromInt(y + height)
        /\ EndOf(result[5])[1] = FromInt(x + width)
        \* right edge, then the corner reaching the bottom side
        /\ EndOf(result[6])[1] = FromInt(x + width)
        /\ EndOf(result[9])[2] = FromInt(y)
        \* bottom edge, then the corner reaching the left side
        /\ EndOf(result[10])[2] = FromInt(y)
        /\ EndOf(result[13])[1] = FromInt(x)
        \* left edge, then the corner reaching the top side
        /\ EndOf(result[14])[1] = FromInt(x)
        /\ EndOf(result[17])[2] = FromInt(y + height)

C3_Witness ==
    /\ Done /\ Valid /\ width = 832 /\ height = 832
    /\ OpsOf(result) = ExpectedOps

(* ------------------------------- C4 ------------------------------------ *)

\* C4 as stated: when width <= 0 or height <= 0 the builder fails before any
\* path construction: no segment is ever appended and no path is returned.
C4_RejectsInvalidRectangle ==
    (width <= 0 \/ height <= 0) =>
        /\ path = <<>>
        /\ result = <<>>
        /\ pc \notin {"return", "done"}

(* ------------------------------- C5 ------------------------------------ *)

\* corner radius fractions a caller of the specified builder may ask for,
\* in hundredths: the reference 0.22, and the 0.9 and 5.0 of the example
Fractions == {22, 90, 500}

C8_TopEdgeRun ==
    (Valid /\ Len(path) >= 2) =>
        LET off == Mul(r, 152866483)
        IN  /\ path[1] = [op |-> "MoveTo",
                          pts |-> << <<Add(FromInt(x), off), FromInt(y + height)>> >>]
            /\ path[2] = [op |-> "LineTo",
                          pts |-> << <<Sub(FromInt(x + width), off), FromInt(y + height)>> >>]
            /\ (x = 0 /\ y = 0 /\ width = 832 /\ height = 832) =>
                /\ r = 18304
                /\ Leq(Hundredths(27975), EndOf(path[1])[1])
                /\ Leq(EndOf(path[1])[1], Hundredths(27985))
                /\ Leq(Hundredths(55215), EndOf(path[2])[1])
                /\ Leq(EndOf(path[2])[1], Hundredths(55225))
                /\ EndOf(path[1])[2] = FromInt(832)
                /\ EndOf(path[2])[2] = FromInt(832)

C8_Witness ==
    /\ Done /\ x = 0 /\ y = 0 /\ width = 832 /\ height = 832
    /\ r = 18304
    /\ result[2].op = "LineTo"

(* ------------------------------- C9 ------------------------------------ *)

PointsOf(p) == UNION {{p[i].pts[j] : j \in DOMAIN p[i].pts} : i \in DOMAIN p}

InRectangle(pt) ==
    /\ Leq(FromInt(x), pt[1])
    /\ Leq(pt[1], FromInt(x + width))
    /\ Leq(FromInt(y), pt[2])
    /\ Leq(pt[2], FromInt(y + height))

\* C9: for width > 0 and height > 0 the limited radius satisfies
\* r * 1.52866483 <= min(width, height) / 2, every straight run has
\* non-negative length in its direction of travel, and every emitted end
\* point and control point lies in [left, right] x [bottom, top].
C9_NoOverlap ==
    (Valid /\ pc # "entry") =>
        LET off == Mul(r, 152866483)
            m   == IF width <= height THEN width ELSE height
        IN  /\ Leq(off, Hundredths(50 * m))
            /\ Leq(Add(FromInt(x), off), Sub(FromInt(x + width), off))
            /\ Leq(Add(FromInt(y), off), Sub(FromInt(y + height), off))
            /\ Len(path) >= 2  => Leq(EndOf(path[1])[1], EndOf(path[2])[1])
            /\ Len(path) >= 6  => Leq(EndOf(path[6])[2], EndOf(path[5])[2])
            /\ Len(path) >= 10 => Leq(EndOf(path[10])[1], EndOf(path[9])[1])
            /\ Len(path) >= 14 => Leq(EndOf(path[13])[2], EndOf(path[14])[2])
            /\ \A pt \in PointsOf(path) : InRectangle(pt)

C9_Witness ==
    /\ Done /\ width = 3 /\ height = 832
    /\ Cardinality(PointsOf(result)) > 16

(* ------------------------------- C10 ----------------------------------- *)

\* C10: for every input the last CubicCurveTo ends exactly at the point of
\* the MoveTo, and the third curve of each corner ends on the side the next
\* LineTo runs along: the two end points share that side's fixed coordinate.
C10_ClosedWithoutGap ==
    Done =>
        /\ result[17].op = "CubicCurveTo"
        /\ EndOf(result[17]) = EndOf(result[1])
        /\ result[18].op = "Close"
        /\ EndOf(result[5])[1] = FromInt(x + width)
        /\ EndOf(result[6])[1] = EndOf(result[5])[1]
        /\ EndOf(result[9])[2] = FromInt(y)
        /\ EndOf(result[10])[2] = EndOf(result[9])[2]
        /\ EndOf(result[13])[1] = FromInt(x)
        /\ EndOf(result[14])[1] = EndOf(result[13])[1]
        /\ EndOf(result[17])[2] = FromInt(y + height)
        /\ EndOf(result[2])[2] = EndOf(result[17])[2]

C10_Witness ==
    /\ Done /\ width = 832 /\ height = 100
    /\ EndOf(result[17]) = EndOf(result[1])
    /\ EndOf(result[17]) # EndOf(result[16])

(* --------------------------- C6 and C7: symmetry ----------------------- *)

\* the sixteen drawn segments (LineTo and CubicCurveTo) of a returned path,
\* each with its start point: the end point of the segment before it
FullSeg(p, i) == [op |-> p[i].op, start |-> EndOf(p[i - 1]), pts |-> p[i].pts]

SegsOf(p) == {FullSeg(p, i) : i \in 2 .. 17}

CurvesOf(p) == {s \in SegsOf(p) : s.op = "CubicCurveTo"}

MapSeg(F(_), s) ==
    [op |-> s.op, start |-> F(s.start), pts |-> [j \in DOMAIN s.pts |-> F(s.pts[j])]]

\* the same curve traversed in the opposite direction
Reversed(s) == [op |-> s.op, start |-> s.pts[1], pts |-> <<s.start, s.pts[3], s.pts[2]>>]

\* Coordinates are compared doubled, so that the centre of the rectangle,
\* ((left + right) / 2, (top + bottom) / 2), needs no halving.
Twice(pt) == <<Add(pt[1], pt[1]), Add(pt[2], pt[2])>>

SumX == Add(FromInt(x), FromInt(x + width))

SumY == Add(FromInt(y), FromInt(y + height))

\* rotation by 90 degrees (clockwise, y pointing up) about the centre, doubled:
\* (px, py) |-> (cx + (py - cy), cy - (px - cx))
Rotate90(pt) ==
    << Add(Sub(SumX, SumY), Add(pt[2], pt[2])),
       Add(Sub(SumY, Add(pt[1], pt[1])), SumX) >>

\* reflection about the vertical axis through the centre, doubled
ReflectV(pt) == << Add(Sub(SumX, Add(pt[1], pt[1])), SumX), Add(pt[2], pt[2]) >>

\* reflection about the horizontal axis through the centre, doubled
ReflectH(pt) == << Add(pt[1], pt[1]), Add(Sub(SumY, Add(pt[2], pt[2])), SumY) >>

\* reflection about the diagonal through bottom-left and top-right, doubled:
\* (px, py) |-> (cx + (py - cy), cy + (px - cx))
ReflectD1(pt) ==
    << Add(Sub(SumX, SumY), Add(pt[2], pt[2])),
       Add(Sub(SumY, SumX), Add(pt[1], pt[1])) >>

\* reflection about the diagonal through top-left and bottom-right, doubled:
\* (px, py) |-> (cx - (py - cy), cy - (px - cx))
ReflectD2(pt) ==
    << Add(Sub(SumX, Add(pt[2], pt[2])), SumY),
       Add(Sub(SumY, Add(pt[1], pt[1])), SumX) >>

\* C6: for a square rectangle the rotation by 90 degrees about the centre
\* maps the set of segments (with start, end and control points) onto
\* itself, and more precisely maps every segment to the one four places
\* later in the contour: each edge to the next edge, and each corner's i-th
\* curve to the next corner's i-th curve.
C6_RotationSymmetry ==
    (Done /\ Square) =>
        /\ {MapSeg(Rotate90, s) : s \in SegsOf(result)}
                = {MapSeg(Twice, s) : s \in SegsOf(result)}
        /\ \A i \in 2 .. 17 :
                MapSeg(Rotate90, FullSeg(result, i))
                    = MapSeg(Twice, FullSeg(result, 2 + ((i + 2) % 16)))

C6_Witness ==
    /\ Done /\ Square /\ width = 832 /\ x = 96 /\ y = 0
    /\ Cardinality(SegsOf(result)) = 16
    /\ MapSeg(Rotate90, FullSeg(result, 3)) = MapSeg(Twice, FullSeg(result, 7))

\* C7 as stated: for a square rectangle each reflection (vertical axis,
\* horizontal axis, either diagonal through the centre) maps the set of curve
\* segments onto itself, a reflected curve being matched with a curve
\* traversed in the opposite direction.
C7_ReflectionSymmetry ==
    (Done /\ Square /\ Valid) =>
        LET curves == {MapSeg(Twice, s) : s \in CurvesOf(result)}
        IN  /\ {Reversed(MapSeg(ReflectV, s)) : s \in CurvesOf(result)} = curves
            /\ {Reversed(MapSeg(ReflectH, s)) : s \in CurvesOf(result)} = curves
            /\ {Reversed(MapSeg(ReflectD1, s)) : s \in CurvesOf(result)} = curves
            /\ {Reversed(MapSeg(ReflectD2, s)) : s \in CurvesOf(result)} = curves

====
